---- MODULE Spec2Model ----
(***************************************************************************)
(* Two-phase commit hook of the LLM readme generator.                      *)
(*                                                                         *)
(* src/scripts/post-commit-llm-readme.ts holds two scripts: lines 1-345    *)
(* are the post-commit script (Phase B), lines 346-1088 the pre-commit     *)
(* script (Phase A).  Both share the retry loop executeCommand and talk to *)
(* each other through the file .git/llm-readme-metadata.json.              *)
(*                                                                         *)
(* A script runs synchronously between two external commands, so one       *)
(* action of the model is the code from one execSync call (or one turn of  *)
(* the event loop) to the next.  Node runs a signal handler only when the  *)
(* event loop turns: in Phase A at the 2 s timer (line 1036) and after     *)
(* main() has finished, in Phase B only after main() has finished.         *)
(***************************************************************************)
EXTENDS Integers, Sequences, FiniteSets, TLC

VARIABLES
  cycle,         \* number of the commit cycle under way
  phase,         \* "idle", "A" (pre-commit process), "B" (post-commit process)
  pc,            \* position of the running script
  config,        \* the script's config object (lines 376-384)
  host,          \* what the machine offers: platform, local generator executable
  metaFile,      \* content of .git/llm-readme-metadata.json
  masterIndex,   \* state of the master-index directory
  metadata,      \* Phase B: result of loadCommitMetadata()
  targetDirs,    \* Phase A: result of determineTargetDirectories()
  altIndex,      \* Phase A: index i of the alternative path format loop
  ec,            \* the running executeCommand call
  stagedFiles,   \* Phase B: output of the staged-diff query
  issued,        \* executeCommand calls finished in this phase, in order
  sigPending,    \* a SIGINT/SIGTERM was delivered and its handler has not run
  exitCode,      \* <<>> while the process runs, then <<status>>
  exitBy,        \* which code ended the process
  cleanupCalls,  \* calls of cleanupMetadata() in this process
  handlerCleanups, \* calls of cleanupMetadata() made by a signal handler
  unlinkFailed,  \* some unlinkSync of the handoff file raised in this process
  writeFailed,   \* the writeFileSync of the handoff file raised in this process
  metaAtStart,   \* handoff file when the phase started
  mergeDone,     \* Phase A: processLlmReadmeFiles() returned normally
  outcome,       \* Phase B: what main() reports: "nothing", "success", "warning"
  xform,         \* transformPathToFilename on its own: input and results
  batch,         \* processLlmReadmeFiles on its own: files, counters, position
  walk,          \* findLlmReadmeFiles on its own: tree, recursion, files found
  resolver       \* determineTargetDirectories on its own: inputs and result

vars == <<cycle, phase, pc, config, host, metaFile, masterIndex, metadata,
          targetDirs, altIndex, ec, stagedFiles, issued, sigPending, exitCode,
          exitBy, cleanupCalls, handlerCleanups, unlinkFailed, writeFailed,
          metaAtStart, mergeDone, outcome, xform, batch, walk, resolver>>

\* What no step of the two scripts' protocol changes.
Fixed == <<host, xform, batch, walk, resolver>>

(***************************************************************************)
(* Bounds of the model.                                                    *)
(***************************************************************************)
MaxCycles == 2
MaxRetriesOption == 4

(***************************************************************************)
(* Program constants.                                                      *)
(***************************************************************************)
maxRetries == 3
BackoffBaseMs == 1000

\* What an attempt of execSync can produce.  An output is a sequence of
\* characters: "f" stands for any non-blank character.  Both scripts capture
\* the output (stdio 'pipe': the post-commit logLevel is 'info', line 30).
\* A timeout or a non-zero exit status is an error with a message.
Blank == {" ", "\n"}
Outputs == { <<>>, <<"\n">>, <<"f", "\n">> }
ErrorMessages == {"ETIMEDOUT", "exit status 1"}

RECURSIVE TrimStart(_)
TrimStart(s) ==
  IF s = <<>> THEN <<>>
  ELSE IF Head(s) \in Blank THEN TrimStart(Tail(s)) ELSE s

RECURSIVE TrimEnd(_)
TrimEnd(s) ==
  IF s = <<>> THEN <<>>
  ELSE IF s[Len(s)] \in Blank THEN TrimEnd(SubSeq(s, 1, Len(s) - 1)) ELSE s

\* String.prototype.trim
Trim(s) == TrimEnd(TrimStart(s))

RECURSIVE Pow2(_)
Pow2(n) == IF n <= 0 THEN 1 ELSE 2 * Pow2(n - 1)

(***************************************************************************)
(* executeCommand (lines 77-119 and 464-506, the same loop in both         *)
(* scripts).                                                               *)
(***************************************************************************)
NoError == [n |-> 0, msg |-> ""]
\* new Error('Unexpected error in executeCommand')
Unexpected == [n |-> 0, msg |-> "Unexpected error in executeCommand"]
EcIdle ==
  [status |-> "idle", cmd |-> "", retries |-> 0, attempt |-> 0,
   result |-> <<>>, error |-> NoError, log |-> <<>>]

\* const { retries = config.maxRetries } = options
RetriesOf(options) ==
  IF options.hasRetries THEN options.retries ELSE maxRetries

Default == [hasRetries |-> FALSE, retries |-> 0]
Once == [hasRetries |-> TRUE, retries |-> 1]

\* State of the call on entry to the loop: attempt = 1.
ExecuteCommand(command, options) ==
  [status |-> "running", cmd |-> command, retries |-> RetriesOf(options),
   attempt |-> 1, result |-> <<>>, error |-> NoError, log |-> <<>>]

\* Faulty variant: the last attempt is taken to be the one before it.
IsLastAttemptEarly(attempt, retries) == attempt >= retries - 1

\* const isLastAttempt = attempt === retries (line 94)
IsLastAttempt(attempt, retries) == attempt = retries

\* Faulty variant: the exponent is attempt instead of attempt - 1.
WaitTimeDoubled(attempt) == Pow2(attempt) * BackoffBaseMs

\* const waitTime = Math.pow(2, attempt - 1) * 1000 (line 107)
WaitTime(attempt) == Pow2(attempt - 1) * BackoffBaseMs

\* new Error(`Command failed after ${retries} attempts: ${error.message}`)
CommandFailed(retries, message) == [n |-> retries, msg |-> message]

LogOk(attempt, out) ==
  [ev |-> "ok", k |-> attempt, ms |-> 0, msg |-> "", out |-> out]
LogFail(attempt, message) ==
  [ev |-> "fail", k |-> attempt, ms |-> 0, msg |-> message, out |-> <<>>]
LogWait(attempt) ==
  [ev |-> "wait", k |-> attempt, ms |-> WaitTime(attempt), msg |-> "", out |-> <<>>]

\* Faulty variant: the result is logged and the loop goes on.
EcAfterSuccessNoReturn(e, out) ==
  [e EXCEPT !.status = IF e.attempt + 1 <= e.retries THEN "running" ELSE "err",
            !.attempt = e.attempt + 1,
            !.log = Append(e.log, [ev |-> "ok", k |-> e.attempt, ms |-> 0,
                                   msg |-> "", out |-> out])]

\* execSync returned: return result (line 92).
EcAfterSuccess(e, out) ==
  [e EXCEPT !.status = "ok", !.result = out,
            !.log = Append(e.log, LogOk(e.attempt, out))]

\* execSync raised: the catch block (lines 93-115).
EcAfterFailure(e, message) ==
  IF IsLastAttempt(e.attempt, e.retries)
  THEN [e EXCEPT !.status = "err",
                 !.error = CommandFailed(e.retries, message),
                 !.log = Append(e.log, LogFail(e.attempt, message))]
  ELSE IF e.attempt + 1 <= e.retries
  THEN [e EXCEPT !.attempt = e.attempt + 1,
                 !.log = Append(Append(e.log, LogFail(e.attempt, message)),
                                LogWait(e.attempt))]
  ELSE \* the loop ends without a return: line 118
       [e EXCEPT !.status = "err",
                 !.attempt = e.attempt + 1,
                 !.error = Unexpected,
                 !.log = Append(Append(e.log, LogFail(e.attempt, message)),
                                LogWait(e.attempt))]

\* The rest of the state while the retry loop runs.
NotRunner == <<cycle, phase, pc, config, Fixed, metaFile, masterIndex, metadata,
               targetDirs, altIndex, stagedFiles, issued, exitCode, exitBy,
               cleanupCalls, handlerCleanups, unlinkFailed, writeFailed,
               metaAtStart, mergeDone, outcome, sigPending>>

AttemptSucceeds ==
  /\ ec.status = "running"
  /\ \E out \in Outputs : ec' = EcAfterSuccess(ec, out)
  /\ UNCHANGED NotRunner

AttemptFailsRetry ==
  /\ ec.status = "running"
  /\ ~IsLastAttempt(ec.attempt, ec.retries)
  /\ \E message \in ErrorMessages : ec' = EcAfterFailure(ec, message)
  /\ UNCHANGED NotRunner

AttemptFailsLast ==
  /\ ec.status = "running"
  /\ IsLastAttempt(ec.attempt, ec.retries)
  /\ \E message \in ErrorMessages : ec' = EcAfterFailure(ec, message)
  /\ UNCHANGED NotRunner

Returned == ec.status \in {"ok", "err"}
Succeeded == ec.status = "ok"


(***************************************************************************)
(* JavaScript values and JSON text.  A string is a sequence of characters; *)
(* a run of letters that JSON passes through unchanged is written as one   *)
(* character ("timestamp").  A JSON text is a sequence of characters too.  *)
(***************************************************************************)
JsValue(t, s, b, m) == [t |-> t, s |-> s, b |-> b, m |-> m]
JsString(s) == JsValue("string", s, FALSE, <<>>)
JsBoolean(b) == JsValue("boolean", <<>>, b, <<>>)
\* An object: its members [k |-> key, v |-> value] in insertion order.
JsObject(m) == JsValue("object", <<>>, FALSE, m)
Undefined == JsValue("undefined", <<>>, FALSE, <<>>)
\* What JSON.parse throws.
SyntaxError == JsValue("SyntaxError", <<>>, FALSE, <<>>)
\* null: what loadCommitMetadata() returns for "nothing there".
Null == JsValue("null", <<>>, FALSE, <<>>)

\* if (!v): null, undefined, false and "" are falsy.
Truthy(v) ==
  CASE v.t = "string" -> v.s # <<>>
    [] v.t = "boolean" -> v.b
    [] v.t = "object" -> TRUE
    [] OTHER -> FALSE

\* v.key: the last member of that name; undefined on anything else.
Get(v, key) ==
  LET at == {i \in DOMAIN v.m : v.m[i].k = key} IN
    IF v.t = "object" /\ at # {}
    THEN v.m[CHOOSE i \in at : \A j \in at : j <= i].v
    ELSE Undefined

\* Faulty variant: nothing is escaped.
EscapeNothing(s) == s

\* JSON.stringify escapes the quote, the backslash and control characters.
RECURSIVE Escape(_)
Escape(s) ==
  IF s = <<>> THEN <<>>
  ELSE (CASE Head(s) = "\"" -> <<"\\", "\"">>
          [] Head(s) = "\\" -> <<"\\", "\\">>
          [] Head(s) = "\n" -> <<"\\", "n">>
          [] OTHER -> <<Head(s)>>) \o Escape(Tail(s))

Quote(s) == <<"\"">> \o Escape(s) \o <<"\"">>

ScalarText(v) ==
  CASE v.t = "string" -> Quote(v.s)
    [] v.t = "boolean" -> <<IF v.b THEN "true" ELSE "false">>
    [] OTHER -> <<"null">>

MemberText(mem) == <<" ", " ">> \o Quote(mem.k) \o <<":", " ">> \o ScalarText(mem.v)

RECURSIVE MembersText(_)
MembersText(m) ==
  IF Len(m) = 1 THEN MemberText(m[1])
  ELSE MemberText(m[1]) \o <<",", "\n">> \o MembersText(Tail(m))

\* JSON.stringify(v, null, 2) of a scalar or of an object of scalars.
JsonStringify(v) ==
  IF v.t # "object" THEN ScalarText(v)
  ELSE IF v.m = <<>> THEN <<"{", "}">>
  ELSE <<"{", "\n">> \o MembersText(v.m) \o <<"\n", "}">>

\* JSON.parse, by recursive descent.  A result is [ok, v, next]: whether a
\* value was read, the value, and the position after it.
Fail == [ok |-> FALSE, v |-> SyntaxError, next |-> 0]
Read(v, next) == [ok |-> TRUE, v |-> v, next |-> next]

RECURSIVE SkipWs(_, _)
SkipWs(text, i) ==
  IF i <= Len(text) /\ text[i] \in Blank THEN SkipWs(text, i + 1) ELSE i

\* The characters of a string literal, from position i after the opening
\* quote; acc is what has been decoded so far.
RECURSIVE ParseString(_, _, _)
ParseString(text, i, acc) ==
  IF i > Len(text) THEN Fail
  ELSE IF text[i] = "\"" THEN Read(JsString(acc), i + 1)
  ELSE IF text[i] = "\n" THEN Fail
  ELSE IF text[i] = "\\"
    THEN IF i + 1 > Len(text) THEN Fail
         ELSE IF text[i + 1] \in {"\"", "\\"}
           THEN ParseString(text, i + 2, Append(acc, text[i + 1]))
         ELSE IF text[i + 1] = "n"
           THEN ParseString(text, i + 2, Append(acc, "\n"))
         ELSE Fail
  ELSE ParseString(text, i + 1, Append(acc, text[i]))

RECURSIVE ParseValue(_, _), ParseMembers(_, _, _)
\* A value that starts at position i.
ParseValue(text, i) ==
  IF i > Len(text) THEN Fail
  ELSE IF text[i] = "\"" THEN ParseString(text, i + 1, <<>>)
  ELSE IF text[i] = "true" THEN Read(JsBoolean(TRUE), i + 1)
  ELSE IF text[i] = "false" THEN Read(JsBoolean(FALSE), i + 1)
  ELSE IF text[i] = "null" THEN Read(Null, i + 1)
  ELSE IF text[i] = "{"
    THEN LET j == SkipWs(text, i + 1) IN
           IF j <= Len(text) /\ text[j] = "}" THEN Read(JsObject(<<>>), j + 1)
           ELSE ParseMembers(text, j, <<>>)
  ELSE Fail

\* The members of an object from position i, where a key must start.
ParseMembers(text, i, acc) ==
  IF i > Len(text) \/ text[i] # "\"" THEN Fail
  ELSE LET key == ParseString(text, i + 1, <<>>) IN
    IF ~key.ok THEN Fail
    ELSE LET colon == SkipWs(text, key.next) IN
      IF colon > Len(text) \/ text[colon] # ":" THEN Fail
      ELSE LET val == ParseValue(text, SkipWs(text, colon + 1)) IN
        IF ~val.ok THEN Fail
        ELSE LET end == SkipWs(text, val.next)
                 members == Append(acc, [k |-> key.v.s, v |-> val.v]) IN
          IF end > Len(text) THEN Fail
          ELSE IF text[end] = "}" THEN Read(JsObject(members), end + 1)
          ELSE IF text[end] = ","
            THEN ParseMembers(text, SkipWs(text, end + 1), members)
          ELSE Fail

JsonParse(text) ==
  LET r == ParseValue(text, SkipWs(text, 1)) IN
    IF r.ok /\ SkipWs(text, r.next) = Len(text) + 1 THEN r ELSE Fail

(***************************************************************************)
(* The handoff file .git/llm-readme-metadata.json.                         *)
(***************************************************************************)
\* config.readmeCommitMessage (line 381): no character of it needs escaping.
ReadmeCommitMessage == <<"Generated master index with deduplicode.ai">>

\* new Date().toISOString() at the instant of cycle c.
ToISOString(c) == <<ToString(c), ":", "00", "Z">>

File(text) == [exists |-> TRUE, text |-> text]
Absent == [exists |-> FALSE, text |-> <<>>]
\* A file that JSON.parse rejects.
Malformed == File(<<"{">>)

Metadata(timestamp, commitMessage, hasLlmReadmeFiles) ==
  JsObject(<< [k |-> <<"timestamp">>, v |-> JsString(timestamp)],
              [k |-> <<"commitMessage">>, v |-> JsString(commitMessage)],
              [k |-> <<"hasLlmReadmeFiles">>, v |-> JsBoolean(hasLlmReadmeFiles)] >>)

\* A well-formed record that flags nothing.
Unflagged == File(JsonStringify(Metadata(ToISOString(0), <<>>, FALSE)))

\* Faulty variant: the record is written with the flag off.
NewMetadataUnflagged(c) ==
  Metadata(ToISOString(c), config.readmeCommitMessage, FALSE)

\* The record saveCommitMetadata builds (lines 783-787); the timestamp of a
\* record written in cycle c is the instant of c.
NewMetadata(c) == Metadata(ToISOString(c), config.readmeCommitMessage, TRUE)

\* Faulty variant: the record is written whatever the commit mode.
SaveCommitMetadataAlways(file, separate, c, writeThrows) ==
  IF writeThrows THEN file
  ELSE File(JsonStringify(NewMetadata(c)))

\* saveCommitMetadata: the file after the call.
SaveCommitMetadata(file, separate, c, writeThrows) ==
  IF ~separate THEN file
  ELSE IF writeThrows THEN file
  ELSE File(JsonStringify(NewMetadata(c)))

\* Faulty variant: no try/catch around JSON.parse.
LoadCommitMetadataNoCatch(file) ==
  IF ~file.exists THEN Null ELSE JsonParse(file.text).v

\* loadCommitMetadata: null if the file is missing or does not parse.
LoadCommitMetadata(file) ==
  IF ~file.exists THEN Null
  ELSE LET r == JsonParse(file.text) IN
         IF r.ok THEN r.v ELSE Null

\* cleanupMetadata: the file after the call.
CleanupMetadata(file, unlinkThrows) ==
  IF file.exists /\ ~unlinkThrows THEN Absent ELSE file

\* One call of cleanupMetadata() and its bookkeeping.
RunCleanup(byHandler) ==
  \E unlinkThrows \in BOOLEAN :
    /\ metaFile' = CleanupMetadata(metaFile, unlinkThrows)
    /\ unlinkFailed' = (unlinkFailed \/ (metaFile.exists /\ unlinkThrows))
    /\ cleanupCalls' = cleanupCalls + 1
    /\ handlerCleanups' = handlerCleanups + (IF byHandler THEN 1 ELSE 0)

\* Faulty variant: the hasLlmReadmeFiles flag is not looked at.
NothingPendingIgnoresFlag(m) == ~Truthy(m)

\* main() of the post-commit script returns before any command when the
\* loaded value is falsy or its hasLlmReadmeFiles is (lines 291-299).
NothingPending(m) == ~Truthy(m) \/ ~Truthy(Get(m, <<"hasLlmReadmeFiles">>))

\* hasLlmReadmeFiles (Phase B): the directory exists, is not empty and holds
\* at least one file with an artifact name.
HasLlmReadmeFiles(index) == index = "artifacts"

IndexStates == {"missing", "empty", "other", "artifacts"}

Finished(e) == [cmd |-> e.cmd, ok |-> e.status = "ok"]

GitAdd == "git add master-index/"
GitStagedCheck == "git diff --name-only --cached master-index/"
GitCommit == "git commit --no-verify"
GitStaged == "git diff --name-only --cached"
DockerVersion == "docker --version"
DockerInspect == "docker image inspect"
DockerRun == "docker run"
DockerRunAlt == "docker run (alternative path)"
LocalRun == "local generator"

(***************************************************************************)
(* Phase B: the post-commit script (lines 283-345).                        *)
(***************************************************************************)
PostStatic == <<cycle, phase, config, Fixed, masterIndex, targetDirs, altIndex,
                sigPending, exitCode, exitBy, writeFailed, metaAtStart, mergeDone>>

\* Faulty variant: main() ends without its finally block.
PostMainEndsNoFinally(result) ==
  /\ outcome' = result
  /\ ec' = EcIdle
  /\ \E escapes \in BOOLEAN : pc' = IF escapes THEN "rejected" ELSE "main_done"
  /\ UNCHANGED <<metaFile, unlinkFailed, cleanupCalls, handlerCleanups>>

\* The end of main(): the log lines of 304-315, the catch block and the
\* finally block.  An error raised while these lines run and again in the
\* catch block is the only way main() can reject.
PostMainEnds(result) ==
  /\ outcome' = result
  /\ ec' = EcIdle
  /\ \E escapes \in BOOLEAN : pc' = IF escapes THEN "rejected" ELSE "main_done"
  /\ RunCleanup(FALSE)

\* main(): no metadata, or metadata that flags nothing (lines 290-299).
PostNothingPending ==
  /\ phase = "B" /\ pc = "start"
  /\ LET m == LoadCommitMetadata(metaFile) IN
       /\ NothingPending(m)
       /\ metadata' = m
  /\ PostMainEnds("nothing")
  /\ UNCHANGED <<stagedFiles, issued>>
  /\ UNCHANGED PostStatic

\* commitLlmReadmeFiles: nothing in master-index, returns true (233-236).
PostNoFiles ==
  /\ phase = "B" /\ pc = "start"
  /\ LET m == LoadCommitMetadata(metaFile) IN
       /\ ~NothingPending(m)
       /\ metadata' = m
  /\ ~HasLlmReadmeFiles(masterIndex)
  /\ PostMainEnds("success")
  /\ UNCHANGED <<stagedFiles, issued>>
  /\ UNCHANGED PostStatic

\* commitLlmReadmeFiles: issues the stage command (line 247).
PostStage ==
  /\ phase = "B" /\ pc = "start"
  /\ LET m == LoadCommitMetadata(metaFile) IN
       /\ ~NothingPending(m)
       /\ metadata' = m
  /\ HasLlmReadmeFiles(masterIndex)
  /\ ec' = ExecuteCommand(GitAdd, Once)
  /\ pc' = "git_add"
  /\ UNCHANGED <<stagedFiles, issued, outcome, metaFile, unlinkFailed,
                 cleanupCalls, handlerCleanups>>
  /\ UNCHANGED PostStatic

\* The stage command succeeded: the staged-diff query is issued (line 251).
PostStageOk ==
  /\ phase = "B" /\ pc = "git_add" /\ Returned /\ Succeeded
  /\ issued' = Append(issued, Finished(ec))
  /\ ec' = ExecuteCommand(GitStagedCheck, Once)
  /\ pc' = "staged_check"
  /\ UNCHANGED <<stagedFiles, metadata, outcome, metaFile, unlinkFailed,
                 cleanupCalls, handlerCleanups>>
  /\ UNCHANGED PostStatic

\* The stage command failed: rethrown at 260, caught at 274, returns false.
PostStageFails ==
  /\ phase = "B" /\ pc = "git_add" /\ Returned /\ ~Succeeded
  /\ issued' = Append(issued, Finished(ec))
  /\ PostMainEnds("warning")
  /\ UNCHANGED <<stagedFiles, metadata>>
  /\ UNCHANGED PostStatic

\* Faulty variant: the output is not trimmed before the test.
StagingVerifiedNoTrim(e) == e.status = "ok" /\ e.result # <<>>

\* if (!stagedFiles || !stagedFiles.trim()) throw (line 253)
StagingVerified(e) == e.status = "ok" /\ Trim(e.result) # <<>>

\* The staged-diff query named files: the commit is issued (line 269).
PostVerified ==
  /\ phase = "B" /\ pc = "staged_check" /\ Returned
  /\ StagingVerified(ec)
  /\ issued' = Append(issued, Finished(ec))
  /\ stagedFiles' = ec.result
  /\ ec' = ExecuteCommand(GitCommit, Once)
  /\ pc' = "git_commit"
  /\ UNCHANGED <<metadata, outcome, metaFile, unlinkFailed, cleanupCalls,
                 handlerCleanups>>
  /\ UNCHANGED PostStatic

\* The staged-diff query failed or named nothing: returns false.
PostNotVerified ==
  /\ phase = "B" /\ pc = "staged_check" /\ Returned
  /\ ~StagingVerified(ec)
  /\ issued' = Append(issued, Finished(ec))
  /\ stagedFiles' = ec.result
  /\ PostMainEnds("warning")
  /\ UNCHANGED <<metadata>>
  /\ UNCHANGED PostStatic

\* The commit command returned (lines 269-277).
PostCommitReturns ==
  /\ phase = "B" /\ pc = "git_commit" /\ Returned
  /\ issued' = Append(issued, Finished(ec))
  /\ PostMainEnds(IF Succeeded THEN "success" ELSE "warning")
  /\ UNCHANGED <<stagedFiles, metadata>>
  /\ UNCHANGED PostStatic

\* Faulty variant: the handler exits without cleaning up.
PostSignalHandlerNoCleanup ==
  /\ phase = "B" /\ pc = "main_done" /\ sigPending
  /\ exitCode' = <<0>>
  /\ exitBy' = "signal"
  /\ pc' = "exited"
  /\ sigPending' = FALSE
  /\ UNCHANGED <<cycle, phase, config, Fixed, masterIndex, metadata, targetDirs,
                 altIndex, ec, stagedFiles, issued, writeFailed, metaAtStart,
                 mergeDone, outcome, metaFile, unlinkFailed, cleanupCalls,
                 handlerCleanups>>

\* process.on('SIGINT' / 'SIGTERM') of the post-commit script (328-338).
PostSignalHandler ==
  /\ phase = "B" /\ pc = "main_done" /\ sigPending
  /\ RunCleanup(TRUE)
  /\ exitCode' = <<0>>
  /\ exitBy' = "signal"
  /\ pc' = "exited"
  /\ sigPending' = FALSE
  /\ UNCHANGED <<cycle, phase, config, Fixed, masterIndex, metadata, targetDirs,
                 altIndex, ec, stagedFiles, issued, writeFailed, metaAtStart,
                 mergeDone, outcome>>

\* main().catch of the post-commit script (341-345).
PostTopLevelCatch ==
  /\ phase = "B" /\ pc = "rejected"
  /\ RunCleanup(FALSE)
  /\ exitCode' = <<0>>
  /\ exitBy' = "catch"
  /\ pc' = "exited"
  /\ UNCHANGED <<cycle, phase, config, Fixed, masterIndex, metadata, targetDirs,
                 altIndex, ec, stagedFiles, issued, sigPending, writeFailed,
                 metaAtStart, mergeDone, outcome>>

\* main() has resolved and nothing keeps the event loop alive.
ProcessEnds ==
  /\ phase \in {"A", "B"} /\ pc = "main_done"
  /\ exitCode' = <<0>>
  /\ exitBy' = "end"
  /\ pc' = "exited"
  /\ UNCHANGED <<cycle, phase, config, Fixed, metaFile, masterIndex, metadata,
                 targetDirs, altIndex, ec, stagedFiles, issued, sigPending,
                 cleanupCalls, handlerCleanups, unlinkFailed, writeFailed,
                 metaAtStart, mergeDone, outcome>>

\* A SIGINT or SIGTERM reaches the running process.
Signal ==
  /\ phase \in {"A", "B"} /\ exitCode = <<>>
  /\ ~sigPending
  /\ sigPending' = TRUE
  /\ UNCHANGED <<cycle, phase, pc, config, Fixed, metaFile, masterIndex,
                 metadata, targetDirs, altIndex, ec, stagedFiles, issued,
                 exitCode, exitBy, cleanupCalls, handlerCleanups, unlinkFailed,
                 writeFailed, metaAtStart, mergeDone, outcome>>


(***************************************************************************)
(* Phase A: the pre-commit script (lines 919-1088).                        *)
(***************************************************************************)
AltFormats == 3

PreStatic == <<cycle, phase, Fixed, metadata, stagedFiles, cleanupCalls,
               handlerCleanups, unlinkFailed, metaAtStart, outcome, sigPending,
               exitCode, exitBy>>

\* A return inside main()'s try block.
PreReturn ==
  /\ pc' = "main_done"
  /\ ec' = EcIdle

\* main() issues the generator command (lines 941-975).
RunGenerator(dirs, useDocker) ==
  /\ targetDirs' = dirs
  /\ ec' = ExecuteCommand(IF useDocker THEN DockerRun ELSE LocalRun, Default)
  /\ pc' = "generate"

\* determineTargetDirectories up to the staged-files query (lines 690-705),
\* then main() up to the generator command.
DetermineTargetDirectories(useDocker) ==
  IF config.explicitTargets THEN RunGenerator("configured", useDocker)
  ELSE IF masterIndex \in {"missing", "empty"} THEN RunGenerator(".", useDocker)
  ELSE /\ ec' = ExecuteCommand(GitStaged, Once)
       /\ pc' = "staged_files"
       /\ targetDirs' = targetDirs

\* validateLlmGenerator, second priority: the local executable (864-874),
\* then main() lines 929-936.
ValidateLocal ==
  IF host.localExe
  THEN /\ config' = [config EXCEPT !.useDocker = FALSE]
       /\ DetermineTargetDirectories(FALSE)
  ELSE /\ config' = config
       /\ targetDirs' = targetDirs
       /\ PreReturn

\* main() starts: validateLlmGenerator checks for Docker (line 843).
PreValidate ==
  /\ phase = "A" /\ pc = "start"
  /\ ec' = ExecuteCommand(DockerVersion, Once)
  /\ pc' = "docker_version"
  /\ UNCHANGED <<config, targetDirs, altIndex, issued, metaFile, masterIndex,
                 writeFailed, mergeDone>>
  /\ UNCHANGED PreStatic

\* if (dockerCheck && dockerCheck.trim()) (line 844)
DockerFound(e) == e.status = "ok" /\ Trim(e.result) # <<>>

PreDockerFound ==
  /\ phase = "A" /\ pc = "docker_version" /\ Returned
  /\ DockerFound(ec)
  /\ issued' = Append(issued, Finished(ec))
  /\ ec' = ExecuteCommand(DockerInspect, Once)
  /\ pc' = "image_inspect"
  /\ UNCHANGED <<config, targetDirs, altIndex, metaFile, masterIndex,
                 writeFailed, mergeDone>>
  /\ UNCHANGED PreStatic

PreDockerMissing ==
  /\ phase = "A" /\ pc = "docker_version" /\ Returned
  /\ ~DockerFound(ec)
  /\ issued' = Append(issued, Finished(ec))
  /\ ValidateLocal
  /\ UNCHANGED <<altIndex, metaFile, masterIndex, writeFailed, mergeDone>>
  /\ UNCHANGED PreStatic

\* The image exists: config.useDocker = true, return true (lines 849-853).
PreImageFound ==
  /\ phase = "A" /\ pc = "image_inspect" /\ Returned /\ Succeeded
  /\ issued' = Append(issued, Finished(ec))
  /\ config' = [config EXCEPT !.useDocker = TRUE]
  /\ DetermineTargetDirectories(TRUE)
  /\ UNCHANGED <<altIndex, metaFile, masterIndex, writeFailed, mergeDone>>
  /\ UNCHANGED PreStatic

PreImageMissing ==
  /\ phase = "A" /\ pc = "image_inspect" /\ Returned /\ ~Succeeded
  /\ issued' = Append(issued, Finished(ec))
  /\ ValidateLocal
  /\ UNCHANGED <<altIndex, metaFile, masterIndex, writeFailed, mergeDone>>
  /\ UNCHANGED PreStatic

\* getStagedFiles and the rest of determineTargetDirectories (705-750,
\* 884-914): the scopes the staged-files output can lead to.
ScopesOf(e) ==
  IF e.status = "ok" /\ Trim(e.result) # <<>> THEN {".", "targeted"} ELSE {"."}

PreStagedFiles ==
  /\ phase = "A" /\ pc = "staged_files" /\ Returned
  /\ issued' = Append(issued, Finished(ec))
  /\ \E dirs \in ScopesOf(ec) : RunGenerator(dirs, config.useDocker)
  /\ UNCHANGED <<config, altIndex, metaFile, masterIndex, writeFailed, mergeDone>>
  /\ UNCHANGED PreStatic

\* The generator command succeeded: await the 2 s timer (line 1036).
PreGenerated ==
  /\ phase = "A" /\ pc = "generate" /\ Returned /\ Succeeded
  /\ issued' = Append(issued, Finished(ec))
  /\ ec' = EcIdle
  /\ pc' = "sleep"
  /\ UNCHANGED <<config, targetDirs, altIndex, metaFile, masterIndex,
                 writeFailed, mergeDone>>
  /\ UNCHANGED PreStatic

\* Lines 1007-1028: fall back to the local executable, or give up.
AfterAlternatives ==
  IF config.useDocker /\ host.localExe
  THEN /\ config' = [config EXCEPT !.useDocker = FALSE]
       /\ ec' = ExecuteCommand(LocalRun, Default)
       /\ pc' = "local_fallback"
  ELSE /\ config' = config
       /\ PreReturn

\* The generator command failed (lines 978-1005).
PreGenerateFails ==
  /\ phase = "A" /\ pc = "generate" /\ Returned /\ ~Succeeded
  /\ issued' = Append(issued, Finished(ec))
  /\ IF config.useDocker /\ host.win32
     THEN /\ altIndex' = 1
          /\ ec' = ExecuteCommand(DockerRunAlt, Default)
          /\ pc' = "alt"
          /\ config' = config
     ELSE /\ altIndex' = altIndex
          /\ AfterAlternatives
  /\ UNCHANGED <<targetDirs, metaFile, masterIndex, writeFailed, mergeDone>>
  /\ UNCHANGED PreStatic

\* An alternative path format failed and another one is left (992-1004).
PreAltNext ==
  /\ phase = "A" /\ pc = "alt" /\ Returned /\ ~Succeeded
  /\ altIndex < AltFormats
  /\ issued' = Append(issued, Finished(ec))
  /\ altIndex' = altIndex + 1
  /\ ec' = ExecuteCommand(DockerRunAlt, Default)
  /\ UNCHANGED <<pc, config, targetDirs, metaFile, masterIndex, writeFailed,
                 mergeDone>>
  /\ UNCHANGED PreStatic

\* The loop over the path formats ends: break on success, or all failed.
PreAltDone ==
  /\ phase = "A" /\ pc = "alt" /\ Returned
  /\ Succeeded \/ altIndex >= AltFormats
  /\ issued' = Append(issued, Finished(ec))
  /\ AfterAlternatives
  /\ UNCHANGED <<targetDirs, altIndex, metaFile, masterIndex, writeFailed,
                 mergeDone>>
  /\ UNCHANGED PreStatic

PreLocalFallbackOk ==
  /\ phase = "A" /\ pc = "local_fallback" /\ Returned /\ Succeeded
  /\ issued' = Append(issued, Finished(ec))
  /\ ec' = EcIdle
  /\ pc' = "sleep"
  /\ UNCHANGED <<config, targetDirs, altIndex, metaFile, masterIndex,
                 writeFailed, mergeDone>>
  /\ UNCHANGED PreStatic

\* Faulty variant: main() goes on to the merge after the last failure.
PreLocalFallbackFailsGoesOn ==
  /\ phase = "A" /\ pc = "local_fallback" /\ Returned /\ ~Succeeded
  /\ issued' = Append(issued, Finished(ec))
  /\ ec' = EcIdle
  /\ pc' = "sleep"
  /\ UNCHANGED <<config, targetDirs, altIndex, metaFile, masterIndex,
                 writeFailed, mergeDone>>
  /\ UNCHANGED PreStatic

\* The local fallback failed too: return (lines 1018-1024).
PreLocalFallbackFails ==
  /\ phase = "A" /\ pc = "local_fallback" /\ Returned /\ ~Succeeded
  /\ issued' = Append(issued, Finished(ec))
  /\ PreReturn
  /\ UNCHANGED <<config, targetDirs, altIndex, metaFile, masterIndex,
                 writeFailed, mergeDone>>
  /\ UNCHANGED PreStatic

\* processLlmReadmeFiles (lines 570-685) seen from main(): what the batch
\* does to the master-index directory.  "none": no artifact found, early
\* return; "moved": at least one artifact relocated; "skipped": artifacts
\* found and none relocated.
MergeOutcomes == {"none", "moved", "skipped"}

ProcessLlmReadmeFiles(index, m) ==
  IF m = "none" THEN index
  ELSE IF m = "moved" THEN "artifacts"
  ELSE IF index = "missing" THEN "empty" ELSE index

\* The timer fired and processLlmReadmeFiles threw: main()'s catch block
\* (1066-1070), which ends main() unless it raises itself.
PreMergeThrows ==
  /\ phase = "A" /\ pc = "sleep" /\ ~sigPending
  /\ \E escapes \in BOOLEAN : pc' = IF escapes THEN "rejected" ELSE "main_done"
  /\ UNCHANGED <<config, targetDirs, altIndex, ec, issued, metaFile,
                 masterIndex, writeFailed, mergeDone>>
  /\ UNCHANGED PreStatic

\* The merge completed; stageLlmReadmeFiles in two-commit mode (801-828).
PreStageForHandoff ==
  /\ phase = "A" /\ pc = "sleep" /\ ~sigPending
  /\ config.createSeparateCommits
  /\ \E m \in MergeOutcomes :
       masterIndex' = ProcessLlmReadmeFiles(masterIndex, m)
  /\ \E writeThrows \in BOOLEAN :
       /\ metaFile' = SaveCommitMetadata(metaFile, TRUE, cycle, writeThrows)
       /\ writeFailed' = writeThrows
  /\ mergeDone' = TRUE
  /\ pc' = "main_done"
  /\ UNCHANGED <<config, targetDirs, altIndex, ec, issued>>
  /\ UNCHANGED PreStatic

\* The merge completed; stageLlmReadmeFiles in single-commit mode with a
\* master-index that holds something: git add (lines 806-816).
PreStageWithPrimary ==
  /\ phase = "A" /\ pc = "sleep" /\ ~sigPending
  /\ ~config.createSeparateCommits
  /\ \E m \in MergeOutcomes :
       /\ masterIndex' = ProcessLlmReadmeFiles(masterIndex, m)
       /\ masterIndex' \in {"other", "artifacts"}
  /\ metaFile' = SaveCommitMetadata(metaFile, FALSE, cycle, FALSE)
  /\ mergeDone' = TRUE
  /\ ec' = ExecuteCommand(GitAdd, Once)
  /\ pc' = "git_add"
  /\ UNCHANGED <<config, targetDirs, altIndex, issued, writeFailed>>
  /\ UNCHANGED PreStatic

\* Single-commit mode with a missing or empty master-index (line 812).
PreNothingToStage ==
  /\ phase = "A" /\ pc = "sleep" /\ ~sigPending
  /\ ~config.createSeparateCommits
  /\ \E m \in MergeOutcomes :
       /\ masterIndex' = ProcessLlmReadmeFiles(masterIndex, m)
       /\ masterIndex' \in {"missing", "empty"}
  /\ metaFile' = SaveCommitMetadata(metaFile, FALSE, cycle, FALSE)
  /\ mergeDone' = TRUE
  /\ pc' = "main_done"
  /\ UNCHANGED <<config, targetDirs, altIndex, ec, issued, writeFailed>>
  /\ UNCHANGED PreStatic

\* git add returned; its failure is logged only (lines 814-819).
PreStaged ==
  /\ phase = "A" /\ pc = "git_add" /\ Returned
  /\ issued' = Append(issued, Finished(ec))
  /\ PreReturn
  /\ UNCHANGED <<config, targetDirs, altIndex, metaFile, masterIndex,
                 writeFailed, mergeDone>>
  /\ UNCHANGED PreStatic

\* process.on('SIGINT' / 'SIGTERM') of the pre-commit script (1074-1082).
PreSignalHandler ==
  /\ phase = "A" /\ pc \in {"sleep", "main_done"} /\ sigPending
  /\ exitCode' = <<1>>
  /\ exitBy' = "signal"
  /\ pc' = "exited"
  /\ sigPending' = FALSE
  /\ UNCHANGED <<cycle, phase, config, Fixed, metaFile, masterIndex, metadata,
                 targetDirs, altIndex, ec, stagedFiles, issued, cleanupCalls,
                 handlerCleanups, unlinkFailed, writeFailed, metaAtStart,
                 mergeDone, outcome>>

\* main().catch of the pre-commit script (1085-1088).
PreTopLevelCatch ==
  /\ phase = "A" /\ pc = "rejected"
  /\ exitCode' = <<1>>
  /\ exitBy' = "catch"
  /\ pc' = "exited"
  /\ UNCHANGED <<cycle, phase, config, Fixed, metaFile, masterIndex, metadata,
                 targetDirs, altIndex, ec, stagedFiles, issued, sigPending,
                 cleanupCalls, handlerCleanups, unlinkFailed, writeFailed,
                 metaAtStart, mergeDone, outcome>>

(***************************************************************************)
(* processLlmReadmeFiles: the path transform (lines 590-615).  A path is a *)
(* sequence of characters, a run of letters written as one character.      *)
(***************************************************************************)
Separators == {"/", "\\"}
RootNames == {"src", "test", "docs", "tools", "types"}
ProjectRoot == <<"project", "-", "root", ".json">>

\* path.dirname of a relative path.
Dirname(p) ==
  LET seps == {i \in DOMAIN p : p[i] \in Separators} IN
    IF seps = {} THEN <<".">>
    ELSE LET last == CHOOSE i \in seps : \A j \in seps : j <= i IN
           IF last = 1 THEN <<p[1]>> ELSE SubSeq(p, 1, last - 1)

\* dirPath.replace(/^[.\\/]+/, '')
RECURSIVE StripLeading(_)
StripLeading(d) ==
  IF d # <<>> /\ Head(d) \in Separators \cup {"."}
  THEN StripLeading(Tail(d)) ELSE d

\* Faulty variant: replace without the g flag, the first run only.
RECURSIVE FlattenFirstOnly(_)
FlattenFirstOnly(d) ==
  IF d = <<>> THEN <<>>
  ELSE IF Head(d) \notin Separators THEN <<Head(d)>> \o FlattenFirstOnly(Tail(d))
  ELSE IF Len(d) > 1 /\ d[2] \in Separators THEN FlattenFirstOnly(Tail(d))
  ELSE <<"-">> \o Tail(d)

\* dirPath.replace(/[\\/]+/g, '-'): every run of separators becomes a hyphen.
RECURSIVE Flatten(_)
Flatten(d) ==
  IF d = <<>> THEN <<>>
  ELSE IF Head(d) \notin Separators THEN <<Head(d)>> \o Flatten(Tail(d))
  ELSE IF Len(d) > 1 /\ d[2] \in Separators THEN Flatten(Tail(d))
  ELSE <<"-">> \o Flatten(Tail(d))

TransformPathToFilename(filePath) ==
  LET dirPath == Dirname(filePath) IN
    IF dirPath = <<".">> \/ dirPath = <<>> THEN ProjectRoot
    ELSE LET normalized == Flatten(StripLeading(dirPath)) IN
           IF Len(normalized) = 1 /\ normalized[1] \in RootNames
           THEN normalized \o <<"-", "root", ".json">>
           ELSE normalized \o <<".json">>

XformIdle == [filePath |-> <<>>, names |-> <<>>]

(***************************************************************************)
(* processLlmReadmeFiles: the loop over the artifacts (lines 570-685).     *)
(* The content of an artifact is named by the path it was generated at; a  *)
(* file of master-index is [name, content].                                *)
(***************************************************************************)
ExcludeDirs == { <<"benchmark">>, <<"benchmarks">>, <<"node_modules">>,
                 <<".", "git">>, <<"dist">>, <<"coverage">> }

\* The letter runs of the model that contain a given run.
Within(run) ==
  IF run = "benchmark" THEN {"benchmark", "benchmarks"}
  ELSE IF run = "build" THEN {"build", "rebuild"}
  ELSE {run}

\* String.prototype.includes
Includes(p, word) ==
  \E i \in 1..(Len(p) - Len(word) + 1) :
    \A k \in DOMAIN word : p[i + k - 1] \in Within(word[k])

\* excludeDirs.some(dir => relativeFilePath.includes(dir))
Excluded(p) == \E dir \in ExcludeDirs : Includes(p, dir)

\* fs.existsSync(destFile)
Exists(index, name) == \E f \in index : f.name = name

\* The directory after a file was renamed or copied onto name.
Put(index, name, content) ==
  {f \in index : f.name # name} \cup {[name |-> name, content |-> content]}

\* Faulty variant: the destination is tested after the move.
ClassifyAfterMove(index, name) == "UPDATE"

\* if (fs.existsSync(destFile)) UPDATE else NEW (lines 633-639)
Classify(index, name) == IF Exists(index, name) THEN "UPDATE" ELSE "NEW"

BatchIdle ==
  [pc |-> "idle", llmReadmeFiles |-> <<>>, next |-> 0, source |-> {},
   index |-> {}, filesFound |-> 0, filesCopied |-> 0, filesUpdated |-> 0,
   filesSkipped |-> 0, log |-> <<>>]

\* What the file system does with one artifact: the source is gone;
\* renameSync succeeds; renameSync raises and copyFileSync + unlinkSync
\* succeed; copyFileSync succeeds and unlinkSync raises; both raise;
\* mkdirSync of the destination directory raises and so does copyFileSync.
MoveOutcomes ==
  {"missing", "renamed", "copied", "copied_not_deleted", "failed", "mkdir_failed"}

\* Faulty variant: the copy fallback leaves the source where it was.
RelocateKeepsSource(b, moved) ==
  LET relativeFilePath == b.llmReadmeFiles[b.next]
      targetFilename == TransformPathToFilename(relativeFilePath)
      action == Classify(b.index, targetFilename)
      landed == moved \in {"renamed", "copied", "copied_not_deleted"}
      skipped == moved \in {"missing", "copied_not_deleted", "failed",
                             "mkdir_failed"}
  IN [b EXCEPT
        !.next = @ + 1,
        !.filesFound = @ + 1,
        !.filesCopied = @ + (IF action = "NEW" THEN 1 ELSE 0),
        !.filesUpdated = @ + (IF action = "UPDATE" THEN 1 ELSE 0),
        !.filesSkipped = @ + (IF skipped THEN 1 ELSE 0),
        !.index = IF landed THEN Put(@, targetFilename, relativeFilePath) ELSE @,
        !.source = IF moved = "renamed" THEN @ \ {relativeFilePath} ELSE @,
        !.log = Append(@, [path |-> relativeFilePath, dest |-> targetFilename,
                           before |-> b.index, action |-> action,
                           outcome |-> moved])]

\* One pass of the loop body (lines 620-674) over the artifact at position
\* batch.next, with what the file system did.
Relocate(b, moved) ==
  LET relativeFilePath == b.llmReadmeFiles[b.next]
      targetFilename == TransformPathToFilename(relativeFilePath)
      action == Classify(b.index, targetFilename)
      landed == moved \in {"renamed", "copied", "copied_not_deleted"}
      skipped == moved \in {"missing", "copied_not_deleted", "failed",
                             "mkdir_failed"}
  IN [b EXCEPT
        !.next = @ + 1,
        !.filesFound = @ + 1,
        !.filesCopied = @ + (IF action = "NEW" THEN 1 ELSE 0),
        !.filesUpdated = @ + (IF action = "UPDATE" THEN 1 ELSE 0),
        !.filesSkipped = @ + (IF skipped THEN 1 ELSE 0),
        !.index = IF landed THEN Put(@, targetFilename, relativeFilePath) ELSE @,
        !.source = IF moved \in {"renamed", "copied"}
                   THEN @ \ {relativeFilePath} ELSE @,
        !.log = Append(@, [path |-> relativeFilePath, dest |-> targetFilename,
                           before |-> b.index, action |-> action,
                           outcome |-> moved])]

(***************************************************************************)
(* findLlmReadmeFiles (lines 511-558).  The name of an entry is a sequence *)
(* of characters, the tree below PROJECT_ROOT is the set of its files,     *)
(* each file the sequence of the names that lead to it.                    *)
(***************************************************************************)
IgnoredDirs == { <<"node_modules">>, <<".", "git">>, <<"master", "-", "index">>,
                 <<"dist">>, <<"build">> }

\* path.relative(PROJECT_ROOT, fullPath)
RECURSIVE RelativePath(_)
RelativePath(names) ==
  IF names = <<>> THEN <<>>
  ELSE IF Len(names) = 1 THEN names[1]
  ELSE names[1] \o <<"/">> \o RelativePath(Tail(names))

\* path names a directory that holds a file at some depth.
IsDirectory(tree, path) ==
  \E q \in tree : Len(q) > Len(path) /\ SubSeq(q, 1, Len(path)) = path

\* fs.readdirSync(dir): the names of the entries of dir.
Readdir(tree, dir) ==
  {q[Len(dir) + 1] : q \in {r \in tree : IsDirectory({r}, dir)}}

\* Faulty variant: only the ignored directories right below the root.
SkippedAtRootOnly(name, relativePath) == relativePath \in IgnoredDirs

\* Lines 528-535: a directory the walk does not enter.
Skipped(name, relativePath) ==
  \/ name \in IgnoredDirs
  \/ \E ignored \in IgnoredDirs : Includes(relativePath, ignored)

\* readmeFileNames.includes(entry.name)
Recognized(name) == \E f \in {"llmreadme.json", "llmreadme-enhanced.json"} : name = <<f>>

\* No walk is running.  stack holds one frame for each walkDirectory call
\* under way: its directory and the entries its loop has not reached yet.
WalkIdle == [pc |-> "idle", tree |-> {}, stack |-> <<>>, files |-> <<>>]

\* A call walkDirectory(dir): readdirSync raises, or the loop starts.
WalkDirectory(w, dir, readdirThrows) ==
  IF readdirThrows THEN [w EXCEPT !.pc = "threw"]
  ELSE [w EXCEPT !.pc = "walking",
                 !.stack = Append(@, [dir |-> dir,
                                      entries |-> Readdir(w.tree, dir)])]

(***************************************************************************)
(* determineTargetDirectories and getStagedFiles in full (lines 690-751,   *)
(* 884-914).  The output of the staged-files command is a text, a path a   *)
(* sequence of characters, a scope a sequence of paths.                    *)
(***************************************************************************)
ExcludedDirs == { <<"node_modules">>, <<".", "git">>, <<"dist">>, <<"build">>,
                  <<"coverage">>, <<".", "next">>, <<".", "nuxt">> }

WholeTree == << <<".">> >>

\* String.prototype.startsWith
StartsWith(s, prefix) ==
  Len(s) >= Len(prefix) /\ SubSeq(s, 1, Len(prefix)) = prefix

\* String.prototype.split(sep)
RECURSIVE SplitAt(_, _)
SplitAt(s, sep) ==
  IF s = <<>> THEN << <<>> >>
  ELSE LET rest == SplitAt(Tail(s), sep) IN
         IF Head(s) = sep THEN << <<>> >> \o rest
         ELSE << <<Head(s)>> \o rest[1] >> \o Tail(rest)

\* file && file.trim() && !file.startsWith('master-index/') (line 905)
StagedOutsideIndex(file) ==
  /\ file # <<>>
  /\ Trim(file) # <<>>
  /\ ~StartsWith(file, <<"master", "-", "index", "/">>)

\* getStagedFiles once the command has finished: query.ok is whether
\* executeCommand returned, query.output what it returned.
GetStagedFiles(query) ==
  IF ~query.ok \/ Trim(query.output) = <<>> THEN <<>>
  ELSE SelectSeq(SplitAt(Trim(query.output), "\n"), StagedOutsideIndex)

\* Lines 715-728: the Set targetPaths, in insertion order.
RECURSIVE TargetPaths(_, _)
TargetPaths(targetPaths, files) ==
  IF files = <<>> THEN targetPaths
  ELSE LET file == Head(files)
           parentDir == Dirname(file)
           added == IF parentDir # <<".">> THEN parentDir ELSE file
       IN TargetPaths(IF \E i \in DOMAIN targetPaths : targetPaths[i] = added
                      THEN targetPaths ELSE Append(targetPaths, added),
                      Tail(files))

\* The filter of lines 732-735.
NotExcludedDir(dir) ==
  /\ dir \notin ExcludedDirs
  /\ ~\E excluded \in ExcludedDirs : StartsWith(dir, excluded \o <<"/">>)

\* Faulty variant: the filtered paths are returned even when none is left.
FromStagedFilesNoFallback(staged) ==
  IF staged = <<>> THEN WholeTree
  ELSE SelectSeq(TargetPaths(<<>>, staged), NotExcludedDir)

\* Lines 707-745: the scope for the staged files.
FromStagedFiles(staged) ==
  IF staged = <<>> THEN WholeTree
  ELSE LET filteredPaths == SelectSeq(TargetPaths(<<>>, staged),
                                      NotExcludedDir)
       IN IF filteredPaths # <<>> THEN filteredPaths ELSE WholeTree

NoQuery == [ok |-> FALSE, output |-> <<>>]

\* No call is under way.  queries counts the staged-files commands issued.
ResolverIdle ==
  [pc |-> "idle", targetDirectories |-> <<>>, masterIndex |-> "missing",
   queries |-> 0, query |-> NoQuery, result |-> <<>>]

(***************************************************************************)
(* The host version-control tool: it runs the pre-commit hook, makes the   *)
(* primary commit unless the hook failed, then runs the post-commit hook.  *)
(***************************************************************************)
\* A fresh process: module-level state as the script initialises it.
NewProcess ==
  /\ pc' = "start"
  /\ config' = [config EXCEPT !.useDocker = FALSE]
  /\ metadata' = Null
  /\ targetDirs' = "none"
  /\ altIndex' = 0
  /\ ec' = EcIdle
  /\ stagedFiles' = <<>>
  /\ issued' = <<>>
  /\ sigPending' = FALSE
  /\ exitCode' = <<>>
  /\ exitBy' = "none"
  /\ cleanupCalls' = 0
  /\ handlerCleanups' = 0
  /\ unlinkFailed' = FALSE
  /\ writeFailed' = FALSE
  /\ metaAtStart' = metaFile
  /\ mergeDone' = FALSE
  /\ outcome' = "none"

\* git commit starts: the pre-commit hook runs.
PreCommitHook ==
  /\ phase = "idle"
  /\ cycle < MaxCycles
  /\ cycle' = cycle + 1
  /\ phase' = "A"
  /\ NewProcess
  /\ UNCHANGED <<Fixed, metaFile, masterIndex>>

\* The pre-commit hook exited non-zero: git aborts the commit.
PrimaryCommitAborted ==
  /\ phase = "A" /\ exitCode = <<1>>
  /\ phase' = "idle"
  /\ NewProcess
  /\ UNCHANGED <<cycle, Fixed, metaFile, masterIndex>>

\* The hook exited zero and the primary commit failed all the same (an
\* empty message, a failing commit-msg hook): no post-commit hook runs.
PrimaryCommitFails ==
  /\ phase = "A" /\ exitCode = <<0>>
  /\ phase' = "idle"
  /\ NewProcess
  /\ UNCHANGED <<cycle, Fixed, metaFile, masterIndex>>

\* The primary commit was made: the post-commit hook runs.
PostCommitHook ==
  /\ phase = "A" /\ exitCode = <<0>>
  /\ phase' = "B"
  /\ NewProcess
  /\ UNCHANGED <<cycle, Fixed, metaFile, masterIndex>>

\* The post-commit hook has exited: the cycle is over.
CycleEnds ==
  /\ phase = "B" /\ exitCode # <<>>
  /\ phase' = "idle"
  /\ NewProcess
  /\ UNCHANGED <<cycle, Fixed, metaFile, masterIndex>>

Init ==
  /\ cycle = 0
  /\ phase = "idle"
  /\ pc = "start"
  /\ config \in [createSeparateCommits : BOOLEAN, explicitTargets : BOOLEAN,
                 useDocker : {FALSE},
                 readmeCommitMessage : {ReadmeCommitMessage}]
  /\ host \in [win32 : BOOLEAN, localExe : BOOLEAN]
  /\ metaFile \in {Absent, Malformed, Unflagged}
  /\ masterIndex \in IndexStates
  /\ metadata = Null
  /\ targetDirs = "none"
  /\ altIndex = 0
  /\ ec = EcIdle
  /\ stagedFiles = <<>>
  /\ issued = <<>>
  /\ sigPending = FALSE
  /\ exitCode = <<>>
  /\ exitBy = "none"
  /\ cleanupCalls = 0
  /\ handlerCleanups = 0
  /\ unlinkFailed = FALSE
  /\ writeFailed = FALSE
  /\ metaAtStart = metaFile
  /\ mergeDone = FALSE
  /\ outcome = "none"
  /\ xform = XformIdle
  /\ batch = BatchIdle
  /\ walk = WalkIdle
  /\ resolver = ResolverIdle

Next ==
  \/ PreCommitHook
  \/ PreValidate
  \/ PreDockerFound
  \/ PreDockerMissing
  \/ PreImageFound
  \/ PreImageMissing
  \/ PreStagedFiles
  \/ PreGenerated
  \/ PreGenerateFails
  \/ PreAltNext
  \/ PreAltDone
  \/ PreLocalFallbackOk
  \/ PreLocalFallbackFails
  \/ PreMergeThrows
  \/ PreStageForHandoff
  \/ PreStageWithPrimary
  \/ PreNothingToStage
  \/ PreStaged
  \/ PreSignalHandler
  \/ PreTopLevelCatch
  \/ PrimaryCommitAborted
  \/ PrimaryCommitFails
  \/ PostCommitHook
  \/ PostNothingPending
  \/ PostNoFiles
  \/ PostStage
  \/ PostStageOk
  \/ PostStageFails
  \/ PostVerified
  \/ PostNotVerified
  \/ PostCommitReturns
  \/ PostSignalHandler
  \/ PostTopLevelCatch
  \/ ProcessEnds
  \/ CycleEnds
  \/ Signal
  \/ AttemptSucceeds
  \/ AttemptFailsRetry
  \/ AttemptFailsLast

Spec == Init /\ [][Next]_vars


(***************************************************************************)
(* executeCommand on its own: every retries option up to MaxRetriesOption, *)
(* and the default.                                                        *)
(***************************************************************************)
RunnerOptions == [hasRetries : BOOLEAN, retries : 1..MaxRetriesOption]

RunnerInit ==
  /\ cycle = 0
  /\ phase = "idle"
  /\ pc = "start"
  /\ config = [createSeparateCommits |-> TRUE, explicitTargets |-> FALSE,
               useDocker |-> FALSE, readmeCommitMessage |-> ReadmeCommitMessage]
  /\ host = [win32 |-> FALSE, localExe |-> TRUE]
  /\ metaFile = Absent
  /\ masterIndex = "missing"
  /\ metadata = Null
  /\ targetDirs = "none"
  /\ altIndex = 0
  /\ \E command \in {GitAdd, LocalRun}, options \in RunnerOptions :
       ec = ExecuteCommand(command, options)
  /\ stagedFiles = <<>>
  /\ issued = <<>>
  /\ sigPending = FALSE
  /\ exitCode = <<>>
  /\ exitBy = "none"
  /\ cleanupCalls = 0
  /\ handlerCleanups = 0
  /\ unlinkFailed = FALSE
  /\ writeFailed = FALSE
  /\ metaAtStart = Absent
  /\ mergeDone = FALSE
  /\ outcome = "none"
  /\ xform = XformIdle
  /\ batch = BatchIdle
  /\ walk = WalkIdle
  /\ resolver = ResolverIdle

RunnerNext ==
  \/ AttemptSucceeds
  \/ AttemptFailsRetry
  \/ AttemptFailsLast

RunnerSpec == RunnerInit /\ [][RunnerNext]_vars


(***************************************************************************)
(* The pure parts on their own.  In these specifications the two scripts   *)
(* do not run: the protocol variables stay as Quiet leaves them.           *)
(***************************************************************************)
Quiet ==
  /\ phase = "idle"
  /\ host = [win32 |-> FALSE, localExe |-> TRUE]
  /\ masterIndex = "missing"
  /\ targetDirs = "none"
  /\ altIndex = 0
  /\ ec = EcIdle
  /\ stagedFiles = <<>>
  /\ issued = <<>>
  /\ sigPending = FALSE
  /\ exitCode = <<>>
  /\ exitBy = "none"
  /\ cleanupCalls = 0
  /\ handlerCleanups = 0
  /\ mergeDone = FALSE

QuietVars == <<phase, Fixed, masterIndex, targetDirs, altIndex, ec, stagedFiles,
               issued, sigPending, exitCode, exitBy, cleanupCalls,
               handlerCleanups, mergeDone>>

(***************************************************************************)
(* The handoff store on its own: saveCommitMetadata, loadCommitMetadata    *)
(* and cleanupMetadata called in any order on any file content.  pc is the *)
(* last call that may have changed the file, outcome what main() of the    *)
(* post-commit script makes of the last load ("none": not loaded since).   *)
(***************************************************************************)
\* File contents that are not JSON.
NotJson ==
  { <<>>, <<"{">>, <<"}">>, <<"{", "}", "}">>, <<"a">>, <<"true", "true">>,
    <<"\"", "a">>, <<"\"", "\\", "a", "\"">>, <<"\"", "\n", "\"">>,
    <<"{", "\"", "a", "\"", "}">>,
    <<"{", "\"", "a", "\"", ":", "true", ",", "}">>,
    <<"{", "hasLlmReadmeFiles", ":", "true", "}">> }

\* File contents that are JSON and were not written by saveCommitMetadata.
OtherJson ==
  { <<"null">>, <<"false">>, <<"\"", "\"">>, <<"\"", "a", "\"">>,
    <<"{", "}">>, <<" ", "{", "\n", "}", "\n">>,
    <<"{", "\"", "hasLlmReadmeFiles", "\"", ":", "\"", "yes", "\"", "}">>,
    <<"{", "\"", "hasLlmReadmeFiles", "\"", ":", "{", "}", "}">>,
    <<"{", "\"", "hasLlmReadmeFiles", "\"", ":", "true", ",",
      "\"", "hasLlmReadmeFiles", "\"", ":", "false", "}">> }

\* Commit messages a configuration can hold.
Messages ==
  { ReadmeCommitMessage, <<"say ", "\"", "hi", "\"">>, <<"C:", "\\", "n">>,
    <<"one", "\n", "two">> }

HandoffInit ==
  /\ Quiet
  /\ cycle \in 1..MaxCycles
  /\ pc = "start"
  /\ config \in [createSeparateCommits : BOOLEAN, explicitTargets : {FALSE},
                 useDocker : {FALSE}, readmeCommitMessage : Messages]
  /\ metaFile \in {Absent} \cup {File(text) : text \in NotJson \cup OtherJson}
  /\ metaAtStart = metaFile
  /\ metadata = Null
  /\ outcome = "none"
  /\ unlinkFailed = FALSE
  /\ writeFailed = FALSE
  /\ xform = XformIdle
  /\ batch = BatchIdle
  /\ walk = WalkIdle
  /\ resolver = ResolverIdle

HandoffSave ==
  /\ \E writeThrows \in BOOLEAN :
       /\ metaFile' = SaveCommitMetadata(metaFile, config.createSeparateCommits,
                                         cycle, writeThrows)
       /\ writeFailed' = (config.createSeparateCommits /\ writeThrows)
  /\ pc' = "saved"
  /\ metadata' = Null
  /\ outcome' = "none"
  /\ UNCHANGED <<cycle, config, metaAtStart, unlinkFailed>>
  /\ UNCHANGED QuietVars

HandoffLoad ==
  /\ metadata' = LoadCommitMetadata(metaFile)
  /\ outcome' = IF NothingPending(metadata') THEN "nothing" ELSE "pending"
  /\ UNCHANGED <<cycle, pc, config, metaFile, metaAtStart, unlinkFailed,
                 writeFailed>>
  /\ UNCHANGED QuietVars

HandoffCleanup ==
  /\ \E unlinkThrows \in BOOLEAN :
       /\ metaFile' = CleanupMetadata(metaFile, unlinkThrows)
       /\ unlinkFailed' = (metaFile.exists /\ unlinkThrows)
  /\ pc' = "cleaned"
  /\ metadata' = Null
  /\ outcome' = "none"
  /\ UNCHANGED <<cycle, config, metaAtStart, writeFailed>>
  /\ UNCHANGED QuietVars

HandoffNext ==
  \/ HandoffSave
  \/ HandoffLoad
  \/ HandoffCleanup

HandoffSpec == HandoffInit /\ [][HandoffNext]_vars

(***************************************************************************)
(* transformPathToFilename on its own: applied to the relative path of an  *)
(* artifact, then to its own result.                                       *)
(***************************************************************************)
MaxDirLen == 5

DirChars == {"a", "src", "-", ".", "/"}

\* Position i of d is outside d or holds a separator.
Edge(d, i) == i < 1 \/ i > Len(d) \/ d[i] = "/"

\* A relative directory path as path.relative returns it: no empty segment,
\* no segment "." or "..".
ValidDir(d) ==
  \A i \in DOMAIN d :
    /\ (d[i] = "/") => (~Edge(d, i - 1) /\ ~Edge(d, i + 1))
    /\ ~(d[i] = "." /\ Edge(d, i - 1) /\ Edge(d, i + 1))
    /\ ~(d[i] = "." /\ Edge(d, i - 1) /\ ~Edge(d, i + 1) /\ d[i + 1] = "."
         /\ Edge(d, i + 2))

Dirs ==
  {d \in UNION {[1..n -> DirChars] : n \in 0..MaxDirLen} : ValidDir(d)}

ReadmeFileNames == {"llmreadme.json", "llmreadme-enhanced.json"}

\* The relative path of file name f in directory d.
Join(d, f) == IF d = <<>> THEN <<f>> ELSE d \o <<"/", f>>

TransformInit ==
  /\ Quiet
  /\ cycle = 0
  /\ pc = "start"
  /\ config = [createSeparateCommits |-> TRUE, explicitTargets |-> FALSE,
               useDocker |-> FALSE, readmeCommitMessage |-> ReadmeCommitMessage]
  /\ metaFile = Absent
  /\ metaAtStart = Absent
  /\ metadata = Null
  /\ outcome = "none"
  /\ unlinkFailed = FALSE
  /\ writeFailed = FALSE
  /\ \E d \in Dirs, f \in ReadmeFileNames :
       xform = [filePath |-> Join(d, f), names |-> <<>>]
  /\ batch = BatchIdle
  /\ walk = WalkIdle
  /\ resolver = ResolverIdle

NotXform == <<cycle, phase, pc, config, host, metaFile, masterIndex, metadata,
              targetDirs, altIndex, ec, stagedFiles, issued, sigPending,
              exitCode, exitBy, cleanupCalls, handlerCleanups, unlinkFailed,
              writeFailed, metaAtStart, mergeDone, outcome, batch, walk,
              resolver>>

TransformPath ==
  /\ xform.names = <<>>
  /\ xform' = [xform EXCEPT !.names = <<TransformPathToFilename(xform.filePath)>>]
  /\ UNCHANGED NotXform

TransformAgain ==
  /\ Len(xform.names) = 1
  /\ xform' = [xform EXCEPT
                 !.names = Append(@, TransformPathToFilename(xform.names[1]))]
  /\ UNCHANGED NotXform

TransformNext ==
  \/ TransformPath
  \/ TransformAgain

TransformSpec == TransformInit /\ [][TransformNext]_vars

(***************************************************************************)
(* processLlmReadmeFiles on its own: one batch over the artifacts that     *)
(* findLlmReadmeFiles returned, with a file system that may fail.          *)
(***************************************************************************)
MaxBatch == 2

\* Artifacts the walk can return: at the root, in a conventional directory,
\* two in one directory, one whose directory flattens to the same name, one
\* in a directory the loop excludes.
ArtifactPaths ==
  { <<"llmreadme.json">>,
    <<"src", "/", "llmreadme.json">>,
    <<"a", "/", "b", "/", "llmreadme.json">>,
    <<"a", "/", "b", "/", "llmreadme-enhanced.json">>,
    <<"a", "-", "b", "/", "llmreadme.json">>,
    <<"benchmarks", "/", "llmreadme.json">> }

\* The walk returns every artifact once.
FileLists ==
  {l \in UNION {[1..n -> ArtifactPaths] : n \in 0..MaxBatch} :
     \A i, j \in DOMAIN l : l[i] = l[j] => i = j}

Range(l) == {l[i] : i \in DOMAIN l}

MergerInit ==
  /\ Quiet
  /\ cycle = 0
  /\ pc = "start"
  /\ config = [createSeparateCommits |-> TRUE, explicitTargets |-> FALSE,
               useDocker |-> FALSE, readmeCommitMessage |-> ReadmeCommitMessage]
  /\ metaFile = Absent
  /\ metaAtStart = Absent
  /\ metadata = Null
  /\ outcome = "none"
  /\ unlinkFailed = FALSE
  /\ writeFailed = FALSE
  /\ xform = XformIdle
  /\ walk = WalkIdle
  /\ resolver = ResolverIdle
  /\ \E l \in FileLists :
       \E present \in SUBSET Range(l) :
         \E old \in SUBSET {TransformPathToFilename(p) : p \in Range(l)} :
           batch = [BatchIdle EXCEPT
                      !.pc = "start",
                      !.llmReadmeFiles = l,
                      !.source = present,
                      !.index = {[name |-> n, content |-> <<"old">>] : n \in old}]

NotBatch == <<cycle, phase, pc, config, host, metaFile, masterIndex, metadata,
              targetDirs, altIndex, ec, stagedFiles, issued, sigPending,
              exitCode, exitBy, cleanupCalls, handlerCleanups, unlinkFailed,
              writeFailed, metaAtStart, mergeDone, outcome, xform, walk,
              resolver>>

\* Lines 572-587: nothing found, return; else make sure master-index
\* exists, which raises if the directory is missing and cannot be made.
MergeStart ==
  /\ batch.pc = "start"
  /\ IF batch.llmReadmeFiles = <<>>
     THEN batch' = [batch EXCEPT !.pc = "done"]
     ELSE \E mkdirThrows \in BOOLEAN :
            /\ mkdirThrows => batch.index = {}
            /\ batch' = [batch EXCEPT
                           !.pc = IF mkdirThrows THEN "threw" ELSE "loop",
                           !.next = 1]
  /\ UNCHANGED NotBatch

\* Lines 623-627: the artifact is under an excluded name.
MergeSkipExcluded ==
  /\ batch.pc = "loop" /\ batch.next <= Len(batch.llmReadmeFiles)
  /\ Excluded(batch.llmReadmeFiles[batch.next])
  /\ batch' = [batch EXCEPT
                 !.next = @ + 1,
                 !.filesSkipped = @ + 1,
                 !.log = Append(@, [path |-> batch.llmReadmeFiles[batch.next],
                                    dest |-> <<>>, before |-> batch.index,
                                    action |-> "SKIP", outcome |-> "excluded"])]
  /\ UNCHANGED NotBatch

\* The outcomes the file system can produce for the artifact at batch.next:
\* the destination directory can fail to be made only while it holds no
\* file (line 647), in which case the source is not looked at (line 652);
\* otherwise a source that is gone is found missing.
Possible(b, moved) ==
  LET gone == b.llmReadmeFiles[b.next] \notin b.source IN
    /\ (moved = "mkdir_failed") => (b.index = {})
    /\ (moved = "missing") => gone
    /\ gone => moved \in {"missing", "mkdir_failed"}

\* Faulty variant: a relocation that fails entirely ends the batch.
MergeRelocateAborts ==
  /\ batch.pc = "loop" /\ batch.next <= Len(batch.llmReadmeFiles)
  /\ ~Excluded(batch.llmReadmeFiles[batch.next])
  /\ \E moved \in MoveOutcomes :
       /\ Possible(batch, moved)
       /\ batch' = IF moved \in {"failed", "mkdir_failed"}
                   THEN [Relocate(batch, moved) EXCEPT !.pc = "threw"]
                   ELSE Relocate(batch, moved)
  /\ UNCHANGED NotBatch

\* Lines 629-673: the artifact is classified and moved.
MergeRelocate ==
  /\ batch.pc = "loop" /\ batch.next <= Len(batch.llmReadmeFiles)
  /\ ~Excluded(batch.llmReadmeFiles[batch.next])
  /\ \E moved \in MoveOutcomes :
       /\ Possible(batch, moved)
       /\ batch' = Relocate(batch, moved)
  /\ UNCHANGED NotBatch

\* Lines 676-681: the loop is over, the summary is logged.
MergeEnd ==
  /\ batch.pc = "loop" /\ batch.next > Len(batch.llmReadmeFiles)
  /\ batch' = [batch EXCEPT !.pc = "done"]
  /\ UNCHANGED NotBatch

MergerNext ==
  \/ MergeStart
  \/ MergeSkipExcluded
  \/ MergeRelocate
  \/ MergeEnd

MergerSpec == MergerInit /\ [][MergerNext]_vars

(***************************************************************************)
(* findLlmReadmeFiles on its own: one walk over a tree of up to MaxTree    *)
(* files, readdirSync returning the entries in any order or raising.       *)
(***************************************************************************)
MaxTree == 3

\* Files a tree can hold: artifacts at the root and in plain directories, a
\* file with another name, artifacts in ignored directories at depth one,
\* two and below, in a directory whose name holds an ignored name, and a
\* directory named like an artifact.
TreePaths ==
  { << <<"llmreadme.json">> >>,
    << <<"a">>, <<"llmreadme-enhanced.json">> >>,
    << <<"a">>, <<"b">>, <<"llmreadme.json">> >>,
    << <<"a">>, <<"llmreadme.json", ".", "bak">> >>,
    << <<"node_modules">>, <<"llmreadme.json">> >>,
    << <<"a">>, <<"node_modules">>, <<"b">>, <<"llmreadme.json">> >>,
    << <<".", "git">>, <<"llmreadme.json">> >>,
    << <<"master", "-", "index">>, <<"llmreadme.json">> >>,
    << <<"a">>, <<"dist">>, <<"llmreadme-enhanced.json">> >>,
    << <<"build">>, <<"a">>, <<"llmreadme.json">> >>,
    << <<"rebuild">>, <<"llmreadme.json">> >>,
    << <<"llmreadme-enhanced.json">>, <<"c">> >> }

Trees == {Range(l) : l \in UNION {[1..n -> TreePaths] : n \in 0..MaxTree}}

CollectorInit ==
  /\ Quiet
  /\ cycle = 0
  /\ pc = "start"
  /\ config = [createSeparateCommits |-> TRUE, explicitTargets |-> FALSE,
               useDocker |-> FALSE, readmeCommitMessage |-> ReadmeCommitMessage]
  /\ metaFile = Absent
  /\ metaAtStart = Absent
  /\ metadata = Null
  /\ outcome = "none"
  /\ unlinkFailed = FALSE
  /\ writeFailed = FALSE
  /\ xform = XformIdle
  /\ batch = BatchIdle
  /\ \E tree \in Trees : walk = [WalkIdle EXCEPT !.pc = "start", !.tree = tree]
  /\ resolver = ResolverIdle

NotWalk == <<cycle, phase, pc, config, host, metaFile, masterIndex, metadata,
             targetDirs, altIndex, ec, stagedFiles, issued, sigPending,
             exitCode, exitBy, cleanupCalls, handlerCleanups, unlinkFailed,
             writeFailed, metaAtStart, mergeDone, outcome, xform, batch,
             resolver>>

\* walkDirectory(PROJECT_ROOT) (line 544)
WalkRoot ==
  /\ walk.pc = "start"
  /\ \E readdirThrows \in BOOLEAN :
       walk' = WalkDirectory(walk, <<>>, readdirThrows)
  /\ UNCHANGED NotWalk

\* One pass of the loop of the innermost walkDirectory call (lines 522-541).
WalkEntry ==
  /\ walk.pc = "walking"
  /\ LET top == Len(walk.stack)
         frame == walk.stack[top]
     IN \E name \in frame.entries :
          LET names == Append(frame.dir, name)
              relativePath == RelativePath(names)
              w == [walk EXCEPT !.stack[top].entries = @ \ {name}]
          IN IF IsDirectory(walk.tree, names)
             THEN IF Skipped(name, relativePath)
                  THEN walk' = w
                  ELSE \E readdirThrows \in BOOLEAN :
                         walk' = WalkDirectory(w, names, readdirThrows)
             ELSE IF Recognized(name)
                  THEN walk' = [w EXCEPT !.files = Append(@, relativePath)]
                  ELSE walk' = w
  /\ UNCHANGED NotWalk

\* The loop of the innermost call is over: it returns; the outermost one
\* returns to findLlmReadmeFiles, which returns files (lines 546-554).
WalkReturn ==
  /\ walk.pc = "walking"
  /\ walk.stack[Len(walk.stack)].entries = {}
  /\ walk' = [walk EXCEPT
                !.stack = SubSeq(@, 1, Len(@) - 1),
                !.pc = IF Len(walk.stack) = 1 THEN "done" ELSE "walking"]
  /\ UNCHANGED NotWalk

CollectorNext ==
  \/ WalkRoot
  \/ WalkEntry
  \/ WalkReturn

CollectorSpec == CollectorInit /\ [][CollectorNext]_vars

(***************************************************************************)
(* determineTargetDirectories on its own: one call, for any configuration, *)
(* any state of master-index and any outcome of the staged-files command.  *)
(***************************************************************************)
MaxStaged == 2

\* Staged files: at the root, in directories, twice in one directory, in
\* master-index, in excluded directories at the top and further down, in a
\* directory whose name starts like an excluded one, and a file at the root
\* named like an excluded directory.
StagedPaths ==
  { <<"f">>,
    <<"src", "/", "f">>,
    <<"src", "/", "g">>,
    <<"src", "/", "a", "/", "f">>,
    <<"master", "-", "index", "/", "a", ".json">>,
    <<"node_modules", "/", "f">>,
    <<"dist", "/", "a", "/", "f">>,
    <<"distance", "/", "f">>,
    <<"packages", "/", "node_modules", "/", "a", "/", "f">>,
    <<"dist">> }

\* git diff --name-only --cached prints one line for each file.
RECURSIVE Lines(_)
Lines(files) ==
  IF files = <<>> THEN <<>> ELSE Head(files) \o <<"\n">> \o Lines(Tail(files))

\* What the command can end with: a failure of its one attempt, or the
\* lines of some staged files, no line, or blank lines.
QueryOutcomes ==
  {NoQuery}
    \cup {[ok |-> TRUE, output |-> Lines(l)] :
            l \in UNION {[1..n -> StagedPaths] : n \in 0..MaxStaged}}
    \cup {[ok |-> TRUE, output |-> text] : text \in {<<"\n">>, <<" ", "\n">>}}

\* Values of config.targetDirectories.
Configured == { <<>>, << <<"src">> >>, << <<"dist">>, <<"src", "/", "a">> >> }

\* master-index is missing, empty, holds files, or cannot be read.
IndexKinds == {"missing", "empty", "files", "unreadable"}

ResolverInit ==
  /\ Quiet
  /\ cycle = 0
  /\ pc = "start"
  /\ config = [createSeparateCommits |-> TRUE, explicitTargets |-> FALSE,
               useDocker |-> FALSE, readmeCommitMessage |-> ReadmeCommitMessage]
  /\ metaFile = Absent
  /\ metaAtStart = Absent
  /\ metadata = Null
  /\ outcome = "none"
  /\ unlinkFailed = FALSE
  /\ writeFailed = FALSE
  /\ xform = XformIdle
  /\ batch = BatchIdle
  /\ walk = WalkIdle
  /\ \E dirs \in Configured, index \in IndexKinds :
       resolver = [ResolverIdle EXCEPT !.pc = "start",
                                       !.targetDirectories = dirs,
                                       !.masterIndex = index]

NotResolver == <<cycle, phase, pc, config, host, metaFile, masterIndex,
                 metadata, targetDirs, altIndex, ec, stagedFiles, issued,
                 sigPending, exitCode, exitBy, cleanupCalls, handlerCleanups,
                 unlinkFailed, writeFailed, metaAtStart, mergeDone, outcome,
                 xform, batch, walk>>

\* Faulty variant: the state of master-index is looked at first.
ResolveStartIndexFirst ==
  /\ resolver.pc = "start"
  /\ resolver' =
       IF resolver.masterIndex # "files"
       THEN [resolver EXCEPT !.pc = "returned", !.result = WholeTree]
       ELSE IF Len(resolver.targetDirectories) > 0
       THEN [resolver EXCEPT !.pc = "returned",
                             !.result = resolver.targetDirectories]
       ELSE [resolver EXCEPT !.pc = "query", !.queries = @ + 1]
  /\ UNCHANGED NotResolver

\* Lines 690-705 and 884-890: the configured directories; or the whole tree
\* when master-index is missing, empty or unreadable (isDirectoryEmpty,
\* lines 756-768); or the staged-files command is issued.
ResolveStart ==
  /\ resolver.pc = "start"
  /\ resolver' =
       IF Len(resolver.targetDirectories) > 0
       THEN [resolver EXCEPT !.pc = "returned",
                             !.result = resolver.targetDirectories]
       ELSE IF resolver.masterIndex # "files"
       THEN [resolver EXCEPT !.pc = "returned", !.result = WholeTree]
       ELSE [resolver EXCEPT !.pc = "query", !.queries = @ + 1]
  /\ UNCHANGED NotResolver

\* The command has finished: lines 892-913 and 707-750.
ResolveStaged ==
  /\ resolver.pc = "query"
  /\ \E query \in QueryOutcomes :
       resolver' = [resolver EXCEPT
                      !.pc = "returned",
                      !.query = query,
                      !.result = FromStagedFiles(GetStagedFiles(query))]
  /\ UNCHANGED NotResolver

ResolverNext ==
  \/ ResolveStart
  \/ ResolveStaged

ResolverSpec == ResolverInit /\ [][ResolverNext]_vars

(***************************************************************************)
(* Properties.                                                             *)
(***************************************************************************)
PostEnded == phase = "B" /\ exitCode # <<>>
PreEnded == phase = "A" /\ exitCode # <<>>

C2_NoStaleMetadata ==
  (phase = "B" /\ pc \in {"git_add", "staged_check", "git_commit"})
    => Get(metadata, <<"timestamp">>) = JsString(ToISOString(cycle))

GeneratorCommands == {DockerRun, DockerRunAlt, LocalRun}
GeneratorSucceeded ==
  \E i \in DOMAIN issued : issued[i].cmd \in GeneratorCommands /\ issued[i].ok

C4_ExitSuccess ==
  (exitCode # <<>> /\ exitBy \in {"end", "catch"}) => exitCode = <<0>>

\* C5: in both phases the signal handler deletes the handoff metadata and
\* exits with a status that does not report failure.
C5_SignalCleansAndSucceeds ==
  exitBy = "signal" => (handlerCleanups >= 1 /\ exitCode = <<0>>)

\* C6 as stated: every Phase B execution calls cleanupMetadata() exactly
\* once.
C6_ExactlyOnce ==
  PostEnded => cleanupCalls = 1

\* C6, amended: every Phase B execution calls cleanupMetadata() at least
\* once: once when the process ends after main() returned, and a second time
\* when a signal handler or the top-level catch runs after main()'s finally.
C6_OnceOrTwice ==
  PostEnded => cleanupCalls = (IF exitBy = "end" THEN 1 ELSE 2)

\* A signal handler ran after main() of Phase B had finished.
C6_Witness ==
  PostEnded /\ exitBy = "signal" /\ cleanupCalls = 2

EventsOf(kind) == {i \in DOMAIN ec.log : ec.log[i].ev = kind}

\* C7: a command that fails on every attempt is tried exactly `retries`
\* times and the call then fails with the message of the final attempt.
C7_FailsAfterRetriesAttempts ==
  (ec.status = "err")
    => /\ Cardinality(EventsOf("fail")) = ec.retries
       /\ EventsOf("ok") = {}
       /\ ec.log[Len(ec.log)].ev = "fail"
       /\ ec.log[Len(ec.log)].k = ec.retries
       /\ ec.error = [n |-> ec.retries, msg |-> ec.log[Len(ec.log)].msg]

\* Three attempts failed, the first and the last with different messages.
C7_Witness ==
  /\ ec.status = "err" /\ ec.retries = 3
  /\ Cardinality(EventsOf("fail")) = 3
  /\ ec.log[1].msg # ec.log[Len(ec.log)].msg

\* C8: a command that fails on attempts 1..k-1 and succeeds on attempt k,
\* k <= retries, returns the output of attempt k, and nothing is attempted
\* after a success.
C8_ReturnsOutputOfFirstSuccess ==
  /\ \A i \in EventsOf("ok") : i = Len(ec.log) /\ ec.status = "ok"
  /\ (ec.status = "ok")
       => LET last == ec.log[Len(ec.log)] IN
            /\ last.ev = "ok"
            /\ last.k = ec.attempt
            /\ ec.attempt <= ec.retries
            /\ ec.result = last.out
            /\ Cardinality(EventsOf("fail")) = ec.attempt - 1
            /\ \A i \in EventsOf("fail") : ec.log[i].k < ec.attempt

\* Attempts 1 and 2 failed, attempt 3 returned a non-empty output.
C8_Witness ==
  /\ ec.status = "ok" /\ ec.attempt = 3
  /\ Cardinality(EventsOf("fail")) = 2
  /\ ec.result # <<>>

\* C9: after failed attempt k that is not the final one the runner waits
\* 2^(k-1) seconds before attempt k+1; there is no wait after the final
\* failed attempt or after a success.
C9_ExponentialBackoff ==
  \A i \in DOMAIN ec.log :
    LET e == ec.log[i] IN
      /\ (e.ev = "wait")
           => /\ i > 1
              /\ ec.log[i - 1].ev = "fail" /\ ec.log[i - 1].k = e.k
              /\ e.k < ec.retries
              /\ e.ms = 1000 * 2^(e.k - 1)
              /\ (i < Len(ec.log))
                   => (ec.log[i + 1].ev \in {"ok", "fail"}
                       /\ ec.log[i + 1].k = e.k + 1)
      /\ (e.ev = "fail" /\ e.k < ec.retries)
           => (i < Len(ec.log) /\ ec.log[i + 1].ev = "wait")
      /\ (e.ev = "fail" /\ e.k >= ec.retries) => i = Len(ec.log)
      /\ (e.ev = "ok") => i = Len(ec.log)

\* Four attempts failed: waits of 1 s, 2 s and 4 s, none after the last.
C9_Witness ==
  /\ ec.status = "err" /\ ec.retries = 4
  /\ Len(ec.log) = 7
  /\ ec.log[2].ms = 1000 /\ ec.log[4].ms = 2000 /\ ec.log[6].ms = 4000

CommitIssued ==
  \/ ec.cmd = GitCommit
  \/ \E i \in DOMAIN issued : issued[i].cmd = GitCommit

\* C10: Phase B issues the commit only after the stage command succeeded and
\* the staged-diff query returned a non-blank result; a failed or blank
\* query is a staging failure and no commit is issued.
C10_CommitOnlyAfterVerifiedStaging ==
  /\ (phase = "B" /\ CommitIssued)
       => /\ Len(issued) >= 2
          /\ issued[1] = [cmd |-> GitAdd, ok |-> TRUE]
          /\ issued[2] = [cmd |-> GitStagedCheck, ok |-> TRUE]
          /\ Trim(stagedFiles) # <<>>
  /\ (phase = "B" /\ Len(issued) >= 2 /\ issued[2].cmd = GitStagedCheck
        /\ (~issued[2].ok \/ Trim(stagedFiles) = <<>>))
       => (~CommitIssued /\ outcome = "warning")
  /\ (phase = "B" /\ Len(issued) >= 1 /\ ~issued[1].ok)
       => (~CommitIssued /\ Len(issued) = 1 /\ outcome = "warning")

\* The staged-diff query of Phase B returned only a newline and the phase
\* ended with a warning, no commit issued.
C10_Witness ==
  /\ PostEnded
  /\ Len(issued) = 2 /\ issued[2] = [cmd |-> GitStagedCheck, ok |-> TRUE]
  /\ stagedFiles = <<"\n">>
  /\ outcome = "warning"

CommandsSucceeded(cmds) ==
  /\ Len(issued) = Len(cmds)
  /\ \A i \in DOMAIN issued : issued[i] = [cmd |-> cmds[i], ok |-> TRUE]

\* C11: Phase B reports success only when the stage command, the staged-diff
\* query and the commit command all succeeded; whenever it went past the
\* flag test and one of them did not (no artifact file in master-index
\* included), it reports the warning; and it never exits with a failure
\* status.
C11_SuccessOnlyAfterCommit ==
  /\ (phase = "B" /\ outcome \in {"success", "warning"})
       => (outcome = "success"
             <=> CommandsSucceeded(<<GitAdd, GitStagedCheck, GitCommit>>))
  /\ PostEnded => exitCode = <<0>>

\* C12: when Phase B starts with no handoff file, with a file that does not
\* parse or with a record whose hasLlmReadmeFiles is false, it issues no
\* command at all, reports nothing to do and exits with status 0.
C12_NothingPendingNoCommands ==
  LET m == LoadCommitMetadata(metaAtStart) IN
    (phase = "B"
       /\ (m = Null \/ Get(m, <<"hasLlmReadmeFiles">>) = JsBoolean(FALSE)))
      => /\ issued = <<>>
         /\ ec = EcIdle
         /\ pc \in {"start", "main_done", "rejected", "exited"}
         /\ outcome \in {"none", "nothing"}
         /\ exitCode \in {<<>>, <<0>>}

\* Phase B found a record that flags nothing while master-index holds
\* artifact files, and ended without a command.
C12_Witness ==
  /\ PostEnded
  /\ metaAtStart = Unflagged
  /\ masterIndex = "artifacts"
  /\ outcome = "nothing"
  /\ issued = <<>>

StageIssued ==
  \/ ec.cmd = GitAdd
  \/ \E i \in DOMAIN issued : issued[i].cmd = GitAdd

FlaggedThisCycle(file) ==
  LET m == LoadCommitMetadata(file) IN
    /\ Get(m, <<"hasLlmReadmeFiles">>) = JsBoolean(TRUE)
    /\ Get(m, <<"timestamp">>) = JsString(ToISOString(cycle))
    /\ Get(m, <<"commitMessage">>) = JsString(config.readmeCommitMessage)

StageCommands == {i \in DOMAIN issued : issued[i].cmd = GitAdd}

C17_LoadNeverFails ==
  /\ metadata.t \in {"null", "boolean", "string", "object"}
  /\ (outcome # "none" /\ (~metaFile.exists \/ metaFile.text \in NotJson))
       => (metadata = Null /\ outcome = "nothing")

\* The file held an object with a trailing comma and the load returned null.
C17_Witness ==
  /\ outcome = "nothing"
  /\ metaFile = File(<<"{", "\"", "a", "\"", ":", "true", ",", "}">>)
  /\ metadata = Null

\* C18: transformPathToFilename applied to its own result returns that
\* result.
C18_Idempotent ==
  Len(xform.names) = 2 => xform.names[2] = xform.names[1]

Count(c, s) == Cardinality({i \in DOMAIN s : s[i] = c})

\* The directory part of the path of an artifact below the root.
DirPart(p) == SubSeq(p, 1, Len(p) - 2)

Conventional(d) == \E r \in RootNames : Flatten(StripLeading(d)) = <<r>>

\* C19 as stated: a root-level artifact gets the name project-root.json; an
\* artifact in a directory path of N segments whose flattened form is not
\* one of src, test, docs, tools, types gets a name with exactly N - 1
\* hyphens.
C19_HyphensAreSeparators ==
  (xform.names # <<>>)
    => LET p == xform.filePath
           name == xform.names[1]
       IN IF Len(p) = 1 THEN name = ProjectRoot
          ELSE ~Conventional(DirPart(p))
                 => Count("-", name) = (Count("/", DirPart(p)) + 1) - 1

\* C19, amended: ... gets a name with one hyphen for each separator and one
\* for each hyphen of the directory path that is left when its leading dots
\* and separators have been dropped.
C19_HyphensAreSeparatorsAndHyphens ==
  (xform.names # <<>>)
    => LET p == xform.filePath
           name == xform.names[1]
           kept == StripLeading(DirPart(p))
       IN IF Len(p) = 1 THEN name = ProjectRoot
          ELSE ~Conventional(DirPart(p))
                 => Count("-", name) = Count("/", kept) + Count("-", kept)

\* A directory of two segments, the first with a hyphen in its name.
C19_Witness ==
  /\ xform.filePath = <<"a", "-", "a", "/", "a", "/", "llmreadme.json">>
  /\ xform.names = << <<"a", "-", "a", "-", "a", ".json">> >>

Classified(action) == {i \in DOMAIN batch.log : batch.log[i].action = action}

\* C20: every artifact the loop does not exclude is counted NEW when no file
\* of its destination name was in master-index just before it was processed
\* and UPDATE otherwise, and right after an artifact counted UPDATE has been
\* relocated the destination holds the content of that artifact.
C20_Classification ==
  /\ \A i \in DOMAIN batch.log :
       LET e == batch.log[i] IN
         (e.outcome # "excluded")
           => e.action = (IF \E f \in e.before : f.name = e.dest
                          THEN "UPDATE" ELSE "NEW")
  /\ batch.filesCopied = Cardinality(Classified("NEW"))
  /\ batch.filesUpdated = Cardinality(Classified("UPDATE"))
  /\ (batch.log # <<>>)
       => LET e == batch.log[Len(batch.log)] IN
            (e.action = "UPDATE" /\ e.outcome \in {"renamed", "copied"})
              => /\ [name |-> e.dest, content |-> e.path] \in batch.index
                 /\ \A f \in batch.index : f.name = e.dest => f.content = e.path

\* Two artifacts of one directory: the first is NEW, the second an UPDATE
\* of the same destination, which then holds the second one's content.
C20_Witness ==
  /\ Len(batch.log) = 2
  /\ batch.log[1].action = "NEW" /\ batch.log[1].outcome = "renamed"
  /\ batch.log[2].action = "UPDATE" /\ batch.log[2].outcome = "copied"
  /\ batch.log[1].dest = batch.log[2].dest
  /\ [name |-> batch.log[2].dest, content |-> batch.log[2].path] \in batch.index
  /\ batch.filesCopied = 1 /\ batch.filesUpdated = 1

\* C21: a failure on one artifact does not end the batch. The batch raises
\* only before the first artifact (master-index cannot be made); once in the
\* loop every artifact of the list is processed in order, whatever happened
\* to the ones before it, and at the end the counters cover the whole list.
C21_FailureNeverAborts ==
  /\ batch.pc = "threw" => batch.log = <<>>
  /\ batch.pc = "loop" => Len(batch.log) = batch.next - 1
  /\ batch.pc = "done"
       => /\ Len(batch.log) = Len(batch.llmReadmeFiles)
          /\ batch.filesFound + Cardinality(Classified("SKIP"))
               = Len(batch.llmReadmeFiles)
  /\ \A i \in DOMAIN batch.log : batch.log[i].path = batch.llmReadmeFiles[i]

\* The first artifact could not be relocated (its source was gone, the
\* destination directory could not be made, or move and copy both failed)
\* and the second one was moved and the batch returned.
FailedOutcomes == {"missing", "mkdir_failed", "failed"}

C21_Witness ==
  /\ batch.pc = "done"
  /\ Len(batch.log) = 2
  /\ batch.log[1].outcome \in FailedOutcomes
  /\ batch.log[2].outcome = "renamed"
  /\ batch.log[2].path \notin batch.source

\* C22: every artifact the loop has been through has incremented exactly
\* one of the counters new, updated and skipped, and one that was not
\* relocated (source gone, or move and copy both failed) is counted skipped
\* and neither new nor updated.
C22_ExactlyOneCounter ==
  /\ batch.filesCopied + batch.filesUpdated + batch.filesSkipped
       = Len(batch.log)
  /\ \A i \in DOMAIN batch.log :
       (batch.log[i].outcome \in FailedOutcomes)
         => batch.log[i].action \notin {"NEW", "UPDATE"}

\* No relocation of the batch failed: every artifact was excluded, found
\* gone, renamed, or copied and deleted.
NoRelocationFailed ==
  \A i \in DOMAIN batch.log :
    batch.log[i].outcome \in {"excluded", "missing", "renamed", "copied"}

C29_DistinctDestinations ==
  /\ \A i, j \in DOMAIN batch.log :
       (i # j /\ batch.log[i].outcome # "excluded"
              /\ batch.log[j].outcome # "excluded")
         => batch.log[i].dest # batch.log[j].dest
  /\ \A i \in DOMAIN batch.log :
       (batch.log[i].outcome \in {"renamed", "copied", "copied_not_deleted"})
         => [name |-> batch.log[i].dest, content |-> batch.log[i].path]
              \in batch.index

\* C25: whenever a generator invocation of Phase A has succeeded (the
\* primary call, a call with an alternative path format, or the local
\* fallback), the next thing main() does is to wait for the timer and run
\* the collector and the merger; it does not return before.
C25_SuccessLeadsToMerge ==
  [][(phase = "A" /\ pc \in {"generate", "alt", "local_fallback"}
        /\ Returned /\ Succeeded /\ pc' # pc)
       => pc' = "sleep"]_vars

\* The names between the separators of a relative path.
Split(p) == SplitAt(p, "/")

\* C23: every path findLlmReadmeFiles has collected ends in one of the two
\* artifact file names, and none of the directories on it has the name of
\* an ignored directory, at whatever depth.
C23_OnlyArtifactsOutsideIgnored ==
  \A i \in DOMAIN walk.files :
    LET names == Split(walk.files[i]) IN
      /\ names[Len(names)] \in {<<"llmreadme.json">>, <<"llmreadme-enhanced.json">>}
      /\ \A k \in 1..(Len(names) - 1) : names[k] \notin IgnoredDirs

\* The walk returned the one artifact of a/b from a tree that also holds an
\* artifact below a/node_modules and a file with another name.
C23_Witness ==
  /\ walk.pc = "done"
  /\ walk.files = << <<"a", "/", "b", "/", "llmreadme.json">> >>
  /\ << <<"a">>, <<"node_modules">>, <<"b">>, <<"llmreadme.json">> >> \in walk.tree
  /\ << <<"a">>, <<"llmreadme.json", ".", "bak">> >> \in walk.tree

\* The staged files the command printed that are not inside master-index,
\* and the directory each of them is in (the file itself at the root).
StagedOutside ==
  {f \in Range(SplitAt(Trim(resolver.query.output), "\n")) :
     /\ Trim(f) # <<>>
     /\ ~(Len(Split(f)) > 1 /\ Split(f)[1] = <<"master", "-", "index">>)}

ParentOrSelf(f) ==
  LET names == Split(f) IN
    IF Len(names) = 1 THEN f
    ELSE RelativePath(SubSeq(names, 1, Len(names) - 1))

Parents == {ParentOrSelf(f) : f \in StagedOutside}

\* d is an excluded directory at the top of the tree, or is below one.
UnderExcludedTop(d) == Split(d)[1] \in ExcludedDirs

\* d is, or is below, a directory with an excluded name at any depth.
UnderExcluded(d) == \E k \in DOMAIN Split(d) : Split(d)[k] \in ExcludedDirs

\* C24: determineTargetDirectories returns a scope that is not empty, and
\* when the staged-files command failed, or when no path is left of the
\* directories of the staged files after the resolver's filter, the scope
\* is exactly the whole tree.
C24_NeverEmptyScope ==
  (resolver.pc = "returned")
    => /\ resolver.result # <<>>
       /\ (resolver.queries = 1
             /\ (~resolver.query.ok
                   \/ {d \in Parents : ~UnderExcludedTop(d)} = {}))
            => resolver.result = WholeTree

\* Files are staged, all of them in master-index or in excluded
\* directories, and the resolver returned the whole tree.
C24_Witness ==
  /\ resolver.pc = "returned"
  /\ resolver.queries = 1
  /\ resolver.query.ok
  /\ Cardinality(StagedOutside) = 2
  /\ resolver.result = WholeTree

\* C27: configured directories are returned as they are, whatever the state
\* of master-index, and without the staged-files command; with none
\* configured and master-index missing or empty the whole tree is returned
\* without the command; the command is issued, once, only when directories
\* are not configured and master-index is neither missing nor empty.
C27_Precedence ==
  /\ (resolver.pc = "returned" /\ resolver.targetDirectories # <<>>)
       => /\ resolver.result = resolver.targetDirectories
          /\ resolver.queries = 0
  /\ (resolver.pc = "returned" /\ resolver.targetDirectories = <<>>
        /\ resolver.masterIndex \in {"missing", "empty"})
       => /\ resolver.result = WholeTree
          /\ resolver.queries = 0
  /\ (resolver.queries > 0)
       => /\ resolver.queries = 1
          /\ resolver.targetDirectories = <<>>
          /\ resolver.masterIndex \notin {"missing", "empty"}
  /\ (resolver.pc = "returned" /\ resolver.targetDirectories = <<>>
        /\ resolver.masterIndex = "files")
       => resolver.queries = 1

\* Two directories are configured, master-index is missing, and the two
\* directories were returned (one of them has an excluded name).
C27_Witness ==
  /\ resolver.pc = "returned"
  /\ Len(resolver.targetDirectories) = 2
  /\ resolver.masterIndex = "missing"
  /\ resolver.result = resolver.targetDirectories
  /\ resolver.queries = 0

\* C28: when the staged-files command printed files outside master-index,
\* the scope returned is the set of their directories (the file itself at
\* the root) without the paths that are, or are below, an excluded
\* directory at any depth, and the whole tree when none is left.
C28_ParentsOutsideExcluded ==
  (resolver.pc = "returned" /\ resolver.queries = 1 /\ resolver.query.ok
     /\ StagedOutside # {})
    => LET expected == {d \in Parents : ~UnderExcluded(d)} IN
         Range(resolver.result) = IF expected = {} THEN {<<".">>} ELSE expected

====
